---- MODULE Spec2Model ----
(***************************************************************************)
(* Cura/util/printableObject.py: the printableObject class.                *)
(*                                                                         *)
(* Lengths are fixed-point numbers counted in quarters of a unit (the      *)
(* value 40 stands for 10.0), so that the halves the code takes of sums of *)
(* half-integer coordinates stay exact.  Scale factors and matrix entries  *)
(* are extended rationals <<n, d>> with d >= 0: <<n, 1>> is the integer n, *)
(* <<1, 0>> is +inf, <<-1, 0>> is -inf and <<0, 0>> is NaN, the values     *)
(* numpy's float64 division produces (numpy.seterr(all='ignore'), line 14).*)
(* A Python None is the empty sequence <<>> and a value v is <<v>>.        *)
(***************************************************************************)
EXTENDS Integers, Sequences, FiniteSets, TLC

VARIABLES self, ret, vboRef, status, inMeshes, vertexList, meshList, pc

objVars == <<self, ret, vboRef, status>>
idxVars == <<inMeshes, vertexList, meshList, pc>>
vars == <<self, ret, vboRef, status, inMeshes, vertexList, meshList, pc>>

None == <<>>
Some(v) == <<v>>

\* Largest absolute value of an entry of the transform the model follows.
MaxEntry == 2
\* Largest reference count of a mesh buffer the model follows.
MaxRefs == 2
\* Largest number of vertices handed to getVertexIndexList in one call.
MaxVerts == 3

\* n units as a fixed-point length.
Fx(n) == 4 * n

Abs(n) == IF n < 0 THEN -n ELSE n
Min2(a, b) == IF b < a THEN b ELSE a
Max2(a, b) == IF b > a THEN b ELSE a

RECURSIVE Gcd(_, _)
Gcd(a, b) == IF b = 0 THEN a ELSE Gcd(b, a % b)

\* floor(sqrt(n)) for 0 <= n < 2^31, a digit at a time in base 36 (36^3 > 46340)
SqrtDigit(n, base, step) ==
    CHOOSE d \in 0..35 :
        /\ base + d * step <= 46340
        /\ (base + d * step) * (base + d * step) <= n
        /\ \/ base + (d + 1) * step > 46340
           \/ (base + (d + 1) * step) * (base + (d + 1) * step) > n
SqrtFrom(n, base, step) == base + step * SqrtDigit(n, base, step)
ISqrt(n) == SqrtFrom(n, SqrtFrom(n, SqrtFrom(n, 0, 1296), 36), 1)
IsSquare(n) == ISqrt(n) * ISqrt(n) = n

(***************************************************************************)
(* float64 values as extended rationals                                    *)
(***************************************************************************)
Sign(n) == IF n > 0 THEN 1 ELSE IF n < 0 THEN -1 ELSE 0

Rat(n, d) ==
    IF d = 0 THEN <<Sign(n), 0>>
    ELSE LET g == Gcd(Abs(n), Abs(d))
             s == IF d < 0 THEN -1 ELSE 1
         IN <<(s * n) \div g, (s * d) \div g>>

RInt(n) == <<n, 1>>
RIsNaN(a) == a[2] = 0 /\ a[1] = 0
RIsFinite(a) == a[2] # 0
RIsInt(a) == a[2] = 1

RMul(a, b) == Rat(a[1] * b[1], a[2] * b[2])
RAdd(a, b) ==
    IF a[2] = 0 /\ b[2] = 0 THEN (IF a[1] = b[1] THEN a ELSE <<0, 0>>)
    ELSE Rat(a[1] * b[2] + b[1] * a[2], a[2] * b[2])
\* a < b as float64 compares: false whenever a NaN is involved
RLess(a, b) ==
    IF RIsNaN(a) \/ RIsNaN(b) THEN FALSE
    ELSE IF a[2] = 0 /\ b[2] = 0 THEN a[1] < b[1]
    ELSE a[1] * b[2] < b[1] * a[2]

\* Python's min(seq): the first item, replaced by each later item that is smaller
RECURSIVE PyMinFrom(_, _, _)
PyMinFrom(s, i, cur) ==
    IF i > Len(s) THEN cur
    ELSE PyMinFrom(s, i + 1, IF RLess(s[i], cur) THEN s[i] ELSE cur)
PyMin(s) == PyMinFrom(s, 2, s[1])

(***************************************************************************)
(* 3x3 matrices: <<row, row, row>>, entries extended rationals             *)
(***************************************************************************)
Axes == 1..3
\* the 3-vector f as a tuple, its components computed when it is built
Vec(f) == <<f[1], f[2], f[3]>>

IntMatrix(m) == Vec([i \in Axes |-> Vec([j \in Axes |-> RInt(m[i][j])])])
Diag(x, y, z) ==
    << <<x, RInt(0), RInt(0)>>, <<RInt(0), y, RInt(0)>>, <<RInt(0), RInt(0), z>> >>
Identity == Diag(RInt(1), RInt(1), RInt(1))

\* numpy.matrix product a * b
MatMul(a, b) ==
    Vec([i \in Axes |-> Vec([j \in Axes |->
        RAdd(RAdd(RMul(a[i][1], b[1][j]), RMul(a[i][2], b[2][j])), RMul(a[i][3], b[3][j]))])])

MatFinite(m) == \A i \in Axes : \A j \in Axes : RIsFinite(m[i][j])
MatIntegral(m) == \A i \in Axes : \A j \in Axes : RIsInt(m[i][j])
MatBounded(m) == \A i \in Axes : \A j \in Axes : Abs(m[i][j][1]) <= MaxEntry

\* the square of numpy.linalg.norm(matrix[::,axis]) for an integral matrix
ColNormSq(m, axis) == m[1][axis][1] * m[1][axis][1] + m[2][axis][1] * m[2][axis][1]
                      + m[3][axis][1] * m[3][axis][1]
ColNormExact(m, axis) == IsSquare(ColNormSq(m, axis))
ColNorm(m, axis) == ISqrt(ColNormSq(m, axis))

(***************************************************************************)
(* Polygon kernel (Cura/util/polygon.py): convex polygons are sequences of *)
(* 2D points in counter-clockwise order from the lexicographically least   *)
(* point.                                                                  *)
(***************************************************************************)
Cross(p, a, b) == (a[1] - p[1]) * (b[2] - p[2]) - (a[2] - p[2]) * (b[1] - p[1])
DistSq2(a, b) == (a[1] - b[1]) * (a[1] - b[1]) + (a[2] - b[2]) * (a[2] - b[2])
LexLess(a, b) == a[1] < b[1] \/ (a[1] = b[1] /\ a[2] < b[2])

SeqSet(s) == {s[i] : i \in 1..Len(s)}

\* the lexicographically least point of S
LexMin(S) == CHOOSE p \in S : \A r \in S : r = p \/ LexLess(p, r)

\* the point after p on the hull: no point lies to the right of the ray from p
\* through it, and none farther along that ray
WrapNext(p, S) ==
    CHOOSE q \in S : \A r \in S :
        \/ Cross(p, q, r) > 0
        \/ Cross(p, q, r) = 0 /\ DistSq2(p, r) <= DistSq2(p, q)

RECURSIVE Wrap(_, _, _)
Wrap(S, start, acc) ==
    LET q == WrapNext(acc[Len(acc)], S \ {acc[Len(acc)]})
    IN IF q = start THEN acc ELSE Wrap(S, start, Append(acc, q))

\* polygon.convexHull: the extreme points of a set of points
convexHull(S) ==
    IF S = {} THEN <<>>
    ELSE IF S = {LexMin(S)} THEN <<LexMin(S)>> ELSE Wrap(S, LexMin(S), <<LexMin(S)>>)

\* polygon.minkowskiHull: the hull of all pairwise sums
minkowskiHull(a, b) ==
    convexHull({<<a[i][1] + b[j][1], a[i][2] + b[j][2]>> : i \in 1..Len(a), j \in 1..Len(b)})

\* p lies in the convex polygon h (on its boundary included), either winding
InPoly(p, h) ==
    LET n == Len(h)
        nxt(i) == h[(i % n) + 1]
    IN IF n = 0 THEN FALSE
       ELSE IF n = 1 THEN p = h[1]
       ELSE /\ \/ \A i \in 1..n : Cross(h[i], nxt(i), p) >= 0
               \/ \A i \in 1..n : Cross(h[i], nxt(i), p) <= 0
            /\ n = 2 => /\ Min2(h[1][1], h[2][1]) <= p[1] /\ p[1] <= Max2(h[1][1], h[2][1])
                        /\ Min2(h[1][2], h[2][2]) <= p[2] /\ p[2] <= Max2(h[1][2], h[2][2])

\* polygon.clipConvex: the intersection of the subject with the convex window,
\* kept as the pair of polygons whose common points it is
clipConvex(subject, window) == [subject |-> subject, window |-> window]
InClip(p, c) == InPoly(p, c.subject) /\ InPoly(p, c.window)

(***************************************************************************)
(* Mesh (Cura/util/mesh.py): a vertex array and a reference-counted buffer *)
(***************************************************************************)
\* Mesh.getTransformedVertexes(): each vertex, a row vector, times the matrix
getTransformedVertexes(m, matrix) ==
    [k \in 1..Len(m.vertexes) |->
        Vec([j \in Axes |-> m.vertexes[k][1] * matrix[1][j][1]
                        + m.vertexes[k][2] * matrix[2][j][1]
                        + m.vertexes[k][3] * matrix[3][j][1]])]

\* numpy.rint of a fixed-point length: to the nearest whole unit, halves to even
Rint(v) ==
    LET q == v \div 4
        r == v - 4 * q
    IN IF r < 2 THEN 4 * q
       ELSE IF r > 2 THEN 4 * (q + 1)
       ELSE IF q % 2 = 0 THEN 4 * q ELSE 4 * (q + 1)

RECURSIVE SeqMinAt(_, _, _, _)
SeqMinAt(tv, n, i, cur) ==
    IF i > Len(tv) THEN cur ELSE SeqMinAt(tv, n, i + 1, Min2(tv[i][n], cur))
RECURSIVE SeqMaxAt(_, _, _, _)
SeqMaxAt(tv, n, i, cur) ==
    IF i > Len(tv) THEN cur ELSE SeqMaxAt(tv, n, i + 1, Max2(tv[i][n], cur))
\* transformedVertexes.min(0) and .max(0)
ArrayMin(tv) == [n \in 1..Len(tv[1]) |-> SeqMinAt(tv, n, 2, tv[1][n])]
ArrayMax(tv) == [n \in 1..Len(tv[1]) |-> SeqMaxAt(tv, n, 2, tv[1][n])]

\* round(math.sqrt(numpy.max(squared distance to the centre)), 3), in thousandths
\* of a unit; dd is the squared distance of the doubled fixed-point coordinates
RoundSqrt3(dd) ==
    LET n == 15625 * dd
        r == ISqrt(n)
    IN IF n - r * r > r THEN r + 1 ELSE r

RECURSIVE MaxDistSq(_, _, _, _)
MaxDistSq(tv, c2, i, cur) ==
    IF i > Len(tv) THEN cur
    ELSE LET d == (2 * tv[i][1] - c2[1]) * (2 * tv[i][1] - c2[1])
                  + (2 * tv[i][2] - c2[2]) * (2 * tv[i][2] - c2[2])
                  + (2 * tv[i][3] - c2[3]) * (2 * tv[i][3] - c2[3])
         IN MaxDistSq(tv, c2, i + 1, Max2(d, cur))

(***************************************************************************)
(* printableObject                                                         *)
(***************************************************************************)
DefaultExtend == << <<-4, -4>>, <<4, -4>>, <<4, 4>>, <<-4, 4>> >>
UnitSquare == << <<-4, -4>>, <<-4, 4>>, <<4, 4>>, <<4, -4>> >>

\* printableObject.__init__
NewObject ==
    [ matrix |-> Identity,
      position |-> <<0, 0>>,
      meshList |-> <<>>,
      transformedMin |-> None,
      transformedMax |-> None,
      transformedSize |-> None,
      boundaryCircleSize |-> None,
      drawOffset |-> None,
      boundaryHull |-> None,
      printAreaExtend |-> DefaultExtend,
      headAreaExtend |-> DefaultExtend,
      headMinSize |-> <<4, 4>>,
      printAreaHull |-> None,
      headAreaHull |-> None,
      headAreaMinHull |-> None ]

\* the outcome of a call: the object it leaves, and how it ended ("ok", "raised"
\* for an exception, "nonfinite" for a transform holding inf or NaN, "skip" for a
\* result the fixed-point numbers cannot hold)
Outcome(o, st) == [o |-> o, st |-> st]

PolyMin(h, n) == SeqMinAt(h, n, 2, h[1][n])
PolyMax(h, n) == SeqMaxAt(h, n, 2, h[1][n])

\* the square of setHeadArea: the bounding box of the hull, grown by minSize
HeadSquare(hull, minSize) ==
    << <<PolyMin(hull, 1) - minSize[1], PolyMin(hull, 2) - minSize[2]>>,
       <<PolyMin(hull, 1) - minSize[1], PolyMax(hull, 2) + minSize[2]>>,
       <<PolyMax(hull, 1) + minSize[1], PolyMax(hull, 2) + minSize[2]>>,
       <<PolyMax(hull, 1) + minSize[1], PolyMin(hull, 2) - minSize[2]>> >>

StoreHeadArea(o, poly, minSize, area) ==
    [o EXCEPT !.headAreaExtend = poly, !.headMinSize = minSize,
              !.headAreaHull = Some(area),
              !.headAreaMinHull = Some(clipConvex(area, HeadSquare(o.printAreaHull[1], minSize)))]

\* printableObject.setHeadArea; numpy.min raises on an empty array, and
\* minkowskiHull on a hull that is still None
setHeadArea(o, poly, minSize) ==
    IF o.printAreaHull = None \/ o.printAreaHull = Some(<<>>)
    THEN Outcome(o, "raised")
    ELSE Outcome(StoreHeadArea(o, poly, minSize, minkowskiHull(o.printAreaHull[1], poly)),
                 "ok")

\* one round of the loop of processMatrix: the mesh's transformed vertexes tv, with
\* their minimum and maximum, folded into the running values
MeshStep(acc, tv, tMin, tMax) ==
    [ min |-> IF acc.min = None THEN Some(tMin)
              ELSE Some(Vec([n \in Axes |-> Min2(tMin[n], acc.min[1][n])])),
      max |-> IF acc.max = None THEN Some(tMax)
              ELSE Some(Vec([n \in Axes |-> Max2(tMax[n], acc.max[1][n])])),
      circle |-> Max2(acc.circle,
                      RoundSqrt3(MaxDistSq(tv, Vec([n \in Axes |-> tMin[n] + tMax[n]]), 1, 0))),
      hull |-> convexHull({<<Rint(tv[k][1]), Rint(tv[k][2])>> : k \in 1..Len(tv)}
                          \cup SeqSet(acc.hull)) ]

MeshVisit(acc, tv) == MeshStep(acc, tv, ArrayMin(tv), ArrayMax(tv))

RECURSIVE MeshLoop(_, _, _)
MeshLoop(o, i, acc) ==
    IF i > Len(o.meshList) THEN acc
    ELSE MeshLoop(o, i + 1,
                  MeshVisit(acc, getTransformedVertexes(o.meshList[i], o.matrix)))

\* the draw offset put at the minimum corner
DrawOffsetAtMin(tMin, tMax) == <<tMin[1], tMin[2], tMin[3]>>

\* self._drawOffset = (max + min) / 2, its z the minimum's
DrawOffset(tMin, tMax) == <<(tMax[1] + tMin[1]) \div 2, (tMax[2] + tMin[2]) \div 2, tMin[3]>>

StoreHulls(o, boundary) ==
    [o EXCEPT !.boundaryHull = Some(boundary),
              !.printAreaHull = Some(minkowskiHull(boundary, o.printAreaExtend))]

StoreBounds(o, tMin, tMax, offset, hull) ==
    StoreHulls([o EXCEPT
                  !.transformedSize = Some(Vec([n \in Axes |-> tMax[n] - tMin[n]])),
                  !.drawOffset = Some(offset),
                  !.transformedMax = Some(Vec([n \in Axes |-> tMax[n] - offset[n]])),
                  !.transformedMin = Some(Vec([n \in Axes |-> tMin[n] - offset[n]]))],
               minkowskiHull([k \in 1..Len(hull) |->
                                <<hull[k][1] - offset[1], hull[k][2] - offset[2]>>],
                             UnitSquare))

StoreGeometry(o, acc) ==
    StoreBounds([o EXCEPT !.boundaryCircleSize = Some(acc.circle)],
                acc.min[1], acc.max[1], DrawOffset(acc.min[1], acc.max[1]), acc.hull)

HeadAreaOf(o) == setHeadArea(o, o.headAreaExtend, o.headMinSize)

\* printableObject.processMatrix.  With no mesh the hulls are empty and setHeadArea
\* raises; the sentinels +-999999999999 the bounds start from are never the
\* minimum or maximum once a mesh has been seen.
processMatrix(o) ==
    IF Len(o.meshList) = 0 THEN Outcome(o, "raised")
    ELSE HeadAreaOf(StoreGeometry(o,
            MeshLoop(o, 1, [min |-> None, max |-> None, circle |-> 0, hull |-> <<>>])))

ApplyProduct(o, product) ==
    IF ~MatFinite(product) THEN Outcome([o EXCEPT !.matrix = product], "nonfinite")
    ELSE IF ~MatIntegral(product) \/ ~MatBounded(product) THEN Outcome(o, "skip")
    ELSE processMatrix([o EXCEPT !.matrix = product])

\* printableObject.applyMatrix
applyMatrix(o, m) == ApplyProduct(o, MatMul(o.matrix, m))

\* printableObject.mirror
mirror(o, axis) ==
    applyMatrix(o, Vec([i \in Axes |-> Vec([j \in Axes |->
        IF i # j THEN RInt(0) ELSE IF i = axis THEN RInt(-1) ELSE RInt(1)])]))

ScaleMatrix(scale, axis, uniform) ==
    IF uniform THEN Diag(scale, scale, scale)
    ELSE Vec([i \in Axes |-> Vec([j \in Axes |->
            IF i # j THEN RInt(0) ELSE IF i = axis THEN scale ELSE RInt(1)])])

RIsZero(a) == a[1] = 0 /\ a[2] # 0

ApplyFactor(o, factor, axis, uniform) ==
    IF RIsZero(factor) THEN Outcome(o, "ok")
    ELSE applyMatrix(o, ScaleMatrix(factor, axis, uniform))

\* printableObject.setScale
setScale(o, scale, axis, uniform) ==
    IF ~ColNormExact(o.matrix, axis) THEN Outcome(o, "skip")
    ELSE ApplyFactor(o, Rat(scale, ColNorm(o.matrix, axis)), axis, uniform)

\* printableObject.setSize; getSize() is None until the first processMatrix
setSize(o, size, axis, uniform) ==
    IF o.transformedSize = None THEN Outcome(o, "raised")
    ELSE ApplyFactor(o, Rat(size, o.transformedSize[1][axis]), axis, uniform)

\* printableObject.resetScale
resetScale(o) ==
    IF \E n \in Axes : ~ColNormExact(o.matrix, n) THEN Outcome(o, "skip")
    ELSE applyMatrix(o, Diag(Rat(1, ColNorm(o.matrix, 1)), Rat(1, ColNorm(o.matrix, 2)),
                             Rat(1, ColNorm(o.matrix, 3))))

\* printableObject.resetRotation
resetRotation(o) ==
    IF \E n \in Axes : ~ColNormExact(o.matrix, n) THEN Outcome(o, "skip")
    ELSE processMatrix([o EXCEPT !.matrix =
            Diag(RInt(ColNorm(o.matrix, 1)), RInt(ColNorm(o.matrix, 2)),
                 RInt(ColNorm(o.matrix, 3)))])

\* the vertexes closer than this to the lowest one are ignored by layFlat
LayFlatMinLen == 5

RECURSIVE ArgMinZ(_, _, _)
ArgMinZ(tv, i, cur) ==
    IF i > Len(tv) THEN cur
    ELSE ArgMinZ(tv, i + 1, IF tv[i][3] < tv[cur][3] THEN i ELSE cur)

\* one vertex of a search of layFlat: dotMin is z / sqrt(lenSq) and v is dotV
FlatVisit(best, diff, lenSq) ==
    IF lenSq < Fx(LayFlatMinLen) * Fx(LayFlatMinLen) THEN best
    ELSE IF diff[3] * diff[3] * best.lenSq < best.z * best.z * lenSq
         THEN [z |-> diff[3], lenSq |-> lenSq, v |-> Some(diff)]
    ELSE best

\* one search of layFlat for the flattest direction from the lowest vertex.  yz
\* selects the second search, which measures the distance in the y-z plane.
RECURSIVE FlatSearch(_, _, _, _, _)
FlatSearch(tv, minZvertex, yz, i, best) ==
    IF i > Len(tv) THEN best
    ELSE FlatSearch(tv, minZvertex, yz, i + 1,
            FlatVisit(best, Vec([n \in Axes |-> tv[i][n] - minZvertex[n]]),
                (IF yz THEN 0
                 ELSE (tv[i][1] - minZvertex[1]) * (tv[i][1] - minZvertex[1]))
                + (tv[i][2] - minZvertex[2]) * (tv[i][2] - minZvertex[2])
                + (tv[i][3] - minZvertex[3]) * (tv[i][3] - minZvertex[3])))

FlatFrom(tv, yz) ==
    FlatSearch(tv, tv[ArgMinZ(tv, 2, 1)], yz, 1, [z |-> 1, lenSq |-> 1, v |-> None])
FlatDirection(o, yz) == FlatFrom(getTransformedVertexes(o.meshList[1], o.matrix), yz)

RotZ(x, y, r) ==
    IF r = 0 THEN Identity
    ELSE << <<Rat(x, r), Rat(-y, r), RInt(0)>>,
            <<Rat(y, r), Rat(x, r), RInt(0)>>,
            <<RInt(0), RInt(0), RInt(1)>> >>
RotY(z, r, len) ==
    << <<Rat(r, len), RInt(0), Rat(-z, len)>>,
       <<RInt(0), RInt(1), RInt(0)>>,
       <<Rat(z, len), RInt(0), Rat(r, len)>> >>
RotX(y, z, len) ==
    << <<RInt(1), RInt(0), RInt(0)>>,
       <<RInt(0), Rat(Abs(y), len), Rat(IF y < 0 THEN z ELSE -z, len)>>,
       <<RInt(0), Rat(IF y < 0 THEN -z ELSE z, len), Rat(Abs(y), len)>> >>

\* the rotations of the first pass: about z by -atan2(y, x), then about y by
\* -asin(dotMin)
FirstRotation(best) ==
    MatMul(RotZ(best.v[1][1], best.v[1][2],
                ISqrt(best.v[1][1] * best.v[1][1] + best.v[1][2] * best.v[1][2])),
           RotY(best.z, ISqrt(best.v[1][1] * best.v[1][1] + best.v[1][2] * best.v[1][2]),
                ISqrt(best.lenSq)))
FirstExact(best) ==
    /\ IsSquare(best.v[1][1] * best.v[1][1] + best.v[1][2] * best.v[1][2])
    /\ IsSquare(best.lenSq)

\* the rotation of the second pass, about x by -+asin(dotMin)
SecondRotation(best) == RotX(best.v[1][2], best.z, ISqrt(best.lenSq))

Unskipped(o, r) == IF r.st = "skip" THEN Outcome(o, "skip") ELSE r

\* the second pass of layFlat; o1 holds the transform the first pass turned
LayFlatSecond(o, o1, second) ==
    IF second.v = None THEN Outcome(o1, "ok")
    ELSE IF ~IsSquare(second.lenSq) THEN Outcome(o, "skip")
    ELSE Unskipped(o, applyMatrix(o1, SecondRotation(second)))

LayFlatTurned(o, turned) ==
    IF ~MatIntegral(turned) THEN Outcome(o, "skip")
    ELSE LayFlatSecond(o, [o EXCEPT !.matrix = turned],
                       FlatDirection([o EXCEPT !.matrix = turned], TRUE))

LayFlatFirst(o, first) ==
    IF first.v = None THEN Outcome(o, "ok")
    ELSE IF ~FirstExact(first) THEN Outcome(o, "skip")
    ELSE LayFlatTurned(o, MatMul(o.matrix, FirstRotation(first)))

\* printableObject.layFlat
layFlat(o) ==
    IF Len(o.meshList) = 0 THEN Outcome(o, "raised")
    ELSE LayFlatFirst(o, FlatDirection(o, FALSE))

ScaleCandidates(position, size, vMin, vMax) ==
    << Rat(size[1] - 2 * position[1], vMax[1] - vMin[1]),
       Rat(size[2] - 2 * position[2], vMax[2] - vMin[2]),
       Rat(2 * position[1] + size[1], vMax[1] - vMin[1]),
       Rat(2 * position[2] + size[2], vMax[2] - vMin[2]),
       Rat(size[3], vMax[3] - vMin[3]) >>

\* the factor of scaleUpTo: min(scaleX1, scaleY1, scaleX2, scaleY2, scaleZ)
scaleUpToFactor(o, size) ==
    PyMin(ScaleCandidates(o.position, size, o.transformedMin[1], o.transformedMax[1]))

ApplyPositive(o, scale) ==
    IF RLess(RInt(0), scale) THEN applyMatrix(o, Diag(scale, scale, scale))
    ELSE Outcome(o, "ok")

\* printableObject.scaleUpTo
scaleUpTo(o, size) ==
    IF o.transformedMin = None THEN Outcome(o, "raised")
    ELSE ApplyPositive(o, scaleUpToFactor(o, size))

\* setPrintAreaExtends without the call of setHeadArea that ends it
setPrintAreaExtendsOnly(o, poly) ==
    IF o.boundaryHull = None THEN Outcome(o, "raised")
    ELSE Outcome([o EXCEPT !.printAreaExtend = poly,
                           !.printAreaHull = Some(minkowskiHull(o.boundaryHull[1], poly))], "ok")

\* printableObject.setPrintAreaExtends
setPrintAreaExtends(o, poly) ==
    IF o.boundaryHull = None THEN Outcome(o, "raised")
    ELSE HeadAreaOf([o EXCEPT !.printAreaExtend = poly,
                              !.printAreaHull = Some(minkowskiHull(o.boundaryHull[1], poly))])

\* printableObject.copy: the object returned; the buffers' counts are in Copy
copy(o) ==
    [NewObject EXCEPT
        !.matrix = o.matrix,
        !.transformedMin = o.transformedMin,
        !.transformedMax = o.transformedMax,
        !.transformedSize = o.transformedSize,
        !.boundaryCircleSize = o.boundaryCircleSize,
        !.boundaryHull = o.boundaryHull,
        !.printAreaExtend = o.printAreaExtend,
        !.printAreaHull = o.printAreaHull,
        !.drawOffset = o.drawOffset,
        !.meshList = o.meshList]

\* the comparison taken one too far
canStoreAsSTLUpToTwo(o) == Len(o.meshList) <= 2

\* printableObject.canStoreAsSTL
canStoreAsSTL(o) == Len(o.meshList) < 2

\* printableObject._addMesh for each loaded vertex array, with its buffer
addMeshes(o, arrays) ==
    [o EXCEPT !.meshList = [k \in 1..Len(arrays) |-> [vertexes |-> arrays[k], vbo |-> k]]]

SizeMax(o) == Max2(o.transformedSize[1][1], Max2(o.transformedSize[1][2], o.transformedSize[1][3]))
ScaleVertexes(o, num, den) ==
    [o EXCEPT !.meshList = [k \in 1..Len(o.meshList) |->
        [o.meshList[k] EXCEPT !.vertexes = [i \in 1..Len(o.meshList[k].vertexes) |->
            Vec([n \in Axes |-> (o.meshList[k].vertexes[i][n] * num) \div den])]]]]

TooSmall(r) ==
    IF r.st = "ok" /\ SizeMax(r.o) < Fx(1)
    THEN processMatrix(ScaleVertexes(r.o, 1000, 1)) ELSE r
TooLarge(r) ==
    IF r.st = "ok" /\ SizeMax(r.o) > Fx(10000)
    THEN processMatrix(ScaleVertexes(r.o, 1, 1000)) ELSE r

\* printableObject._postProcessAfterLoad
postProcessAfterLoad(o) == TooSmall(TooLarge(processMatrix(o)))

(***************************************************************************)
(* The calls the model makes, and their arguments                          *)
(***************************************************************************)
Tri == << <<0, 0, 0>>, <<Fx(10), 0, 0>>, <<0, Fx(10), 0>> >>
Thin == << <<0, 0, 0>>, <<0, Fx(10), 0>>, <<2, Fx(5), 0>> >>
Wedge == << <<0, 0, 0>>, <<0, Fx(10), 0>>, <<0, 0, Fx(10)>> >>
MeshArrays == {<<>>, <<Tri>>, <<Thin, Wedge>>}

RotZ90 == IntMatrix(<< <<0, 1, 0>>, <<-1, 0, 0>>, <<0, 0, 1>> >>)
Matrices == {RotZ90}

MirrorAxes == {1, 2}
ScaleAxes == {1, 3}
ScaleValues == {0, 2}
SizeValues == {0, Fx(20)}
TargetSizes == {<<Fx(10), Fx(20), Fx(20)>>, <<Fx(20), Fx(20), Fx(10)>>}
Positions == {<<0, 0>>, <<Fx(5), 0>>}
OffCentre == << <<4, 4>>, <<12, 4>>, <<4, 12>> >>
Skewed == << <<-4, -4>>, <<12, -4>>, <<-4, 12>> >>
Shapes == {DefaultExtend, OffCentre, Skewed}
HeadAreas == {<<DefaultExtend, <<4, 4>> >>, <<OffCentre, <<0, 0>> >>, <<Skewed, <<8, 8>> >>}

\* a call on the object returns None: what it left and how it ended
Commit(r) ==
    /\ r.st # "skip"
    /\ self' = r.o
    /\ status' = r.st
    /\ ret' = None
    /\ UNCHANGED <<vboRef, idxVars>>

Loaded(arrays, r) ==
    /\ self' = r.o
    /\ status' = r.st
    /\ vboRef' = [k \in 1..Len(arrays) |-> 1]
    /\ ret' = None
    /\ UNCHANGED idxVars

\* the loader: _addMesh for each array, then _postProcessAfterLoad
Load(arrays) ==
    /\ status = "ok"
    /\ self.meshList = <<>> /\ self.transformedMin = None
    /\ Loaded(arrays, postProcessAfterLoad(addMeshes(self, arrays)))

ApplyMatrix(m) == status = "ok" /\ Commit(applyMatrix(self, m))
Mirror(axis) == status = "ok" /\ Commit(mirror(self, axis))
SetScale(scale, axis, uniform) == status = "ok" /\ Commit(setScale(self, scale, axis, uniform))
SetSize(size, axis, uniform) == status = "ok" /\ Commit(setSize(self, size, axis, uniform))
ResetScale == status = "ok" /\ Commit(resetScale(self))
ResetRotation == status = "ok" /\ Commit(resetRotation(self))
LayFlat == status = "ok" /\ Commit(layFlat(self))
ScaleUpTo(size) == status = "ok" /\ Commit(scaleUpTo(self, size))
SetPrintAreaExtends(poly) == status = "ok" /\ Commit(setPrintAreaExtends(self, poly))
SetHeadArea(poly, minSize) == status = "ok" /\ Commit(setHeadArea(self, poly, minSize))

\* printableObject.setPosition
SetPosition(newPos) ==
    /\ status = "ok"
    /\ self' = [self EXCEPT !.position = newPos]
    /\ ret' = None
    /\ UNCHANGED <<vboRef, status, idxVars>>

\* printableObject.copy: .copy() of a field that is still None raises; each
\* mesh of the copy shares the buffer and counts one more reference to it
Copy ==
    /\ status = "ok"
    /\ \A b \in DOMAIN vboRef : vboRef[b] < MaxRefs
    /\ IF self.transformedMin = None
       THEN status' = "raised" /\ ret' = None /\ UNCHANGED vboRef
       ELSE /\ status' = "ok"
            /\ ret' = <<"copy", copy(self)>>
            /\ vboRef' = [b \in DOMAIN vboRef |->
                    vboRef[b] + Cardinality({k \in 1..Len(self.meshList) :
                                                self.meshList[k].vbo = b})]
    /\ UNCHANGED <<self, idxVars>>

CanStoreAsSTL ==
    /\ status = "ok"
    /\ ret' = <<"canStoreAsSTL", canStoreAsSTL(self)>>
    /\ UNCHANGED <<self, vboRef, status, idxVars>>

IdxIdle == inMeshes = <<>> /\ vertexList = <<>> /\ meshList = <<>> /\ pc = "idle"

Init ==
    /\ self = NewObject
    /\ ret = None
    /\ vboRef = <<>>
    /\ status = "ok"
    /\ IdxIdle

Next ==
    \/ \E arrays \in MeshArrays : Load(arrays)
    \/ \E m \in Matrices : ApplyMatrix(m)
    \/ \E axis \in MirrorAxes : Mirror(axis)
    \/ \E scale \in ScaleValues, axis \in ScaleAxes, uniform \in BOOLEAN :
            SetScale(scale, axis, uniform)
    \/ \E size \in SizeValues, axis \in ScaleAxes, uniform \in BOOLEAN :
            SetSize(size, axis, uniform)
    \/ ResetScale
    \/ ResetRotation
    \/ LayFlat
    \/ \E size \in TargetSizes : ScaleUpTo(size)
    \/ \E newPos \in Positions : SetPosition(newPos)
    \/ Copy
    \/ CanStoreAsSTL

Spec == Init /\ [][Next]_vars

\* the hull parameters, under a few transform edits
NextHull ==
    \/ \E arrays \in MeshArrays : Load(arrays)
    \/ \E m \in Matrices : ApplyMatrix(m)
    \/ \E axis \in MirrorAxes : Mirror(axis)
    \/ LayFlat
    \/ \E poly \in Shapes : SetPrintAreaExtends(poly)
    \/ \E area \in HeadAreas : SetHeadArea(area[1], area[2])

SpecHull == Init /\ [][NextHull]_vars

(***************************************************************************)
(* printableObject.getVertexIndexList.  Its input is the list of arrays    *)
(* m.getTransformedVertexes(True) gives for the meshes; here a length is   *)
(* counted in steps of 0.0005, so that 0.001 is 2 and a hash cell of 0.01  *)
(* is 20 steps wide.  Indexes count from 0, as in the code.                *)
(***************************************************************************)
\* int(c * 100) of a coordinate that is not negative
HashCell(c) == c \div 20

RECURSIVE BitOr(_, _)
BitOr(a, b) ==
    IF a = 0 THEN b
    ELSE IF b = 0 THEN a
    ELSE (IF a % 2 = 1 \/ b % 2 = 1 THEN 1 ELSE 0) + 2 * BitOr(a \div 2, b \div 2)

\* hashNr = int(v[0] * 100) | int(v[1] * 100) << 10 | int(v[2] * 100) << 20
HashNr(v) == BitOr(BitOr(HashCell(v[1]), HashCell(v[2]) * 1024), HashCell(v[3]) * 1048576)

DistSq3(v, w) == (v[1] - w[1]) * (v[1] - w[1]) + (v[2] - w[2]) * (v[2] - w[2])
                 + (v[3] - w[3]) * (v[3] - w[3])

\* the tolerance taken as the width of a hash cell, 0.01
WithinToleranceCell(v, w) == DistSq3(v, w) < 20 * 20

\* numpy.linalg.norm(v - w) < 0.001
WithinTolerance(v, w) == DistSq3(v, w) < 2 * 2

\* for idx2 in vertexMap[hashNr]: the last entry of the cell within the tolerance
RECURSIVE CellScan(_, _, _, _, _)
CellScan(cell, k, v, list, vIdx) ==
    IF k > Len(cell) THEN vIdx
    ELSE CellScan(cell, k + 1, v, list,
                  IF WithinTolerance(v, list[cell[k] + 1]) THEN Some(cell[k]) ELSE vIdx)

Lookup(st, v, hashNr) ==
    IF hashNr \in DOMAIN st.vertexMap
    THEN CellScan(st.vertexMap[hashNr], 1, v, st.vertexList, None)
    ELSE None

\* vertexMap[hashNr] = [vIdx]
MapStore(map, hashNr, vIdx) ==
    [h \in DOMAIN map \cup {hashNr} |-> IF h = hashNr THEN <<vIdx>> ELSE map[h]]

\* the body of the loop over the vertexes of a mesh, for the vertex v
Placed(st, v, hashNr, vIdx) ==
    IF vIdx = None
    THEN [st EXCEPT !.vertexMap = MapStore(st.vertexMap, hashNr, Len(st.vertexList)),
                    !.vertexList = Append(st.vertexList, v),
                    !.meshIdxList = Append(st.meshIdxList, Len(st.vertexList))]
    ELSE [st EXCEPT !.meshIdxList = Append(st.meshIdxList, vIdx[1])]

VisitVertex(st, v) == Placed(st, v, HashNr(v), Lookup(st, v, HashNr(v)))

RECURSIVE VertexLoop(_, _, _)
VertexLoop(verts, idx, st) ==
    IF idx > Len(verts) THEN st
    ELSE VertexLoop(verts, idx + 1, VisitVertex(st, verts[idx]))

\* meshList.append(numpy.array(meshIdxList, numpy.int32))
MeshDone(st) == [st EXCEPT !.meshList = Append(st.meshList, st.meshIdxList)]

RECURSIVE IndexLoop(_, _, _)
IndexLoop(meshes, k, st) ==
    IF k > Len(meshes) THEN st
    ELSE IndexLoop(meshes, k + 1,
            MeshDone(VertexLoop(meshes[k], 1, [st EXCEPT !.meshIdxList = <<>>])))

getVertexIndexList(meshes) ==
    IndexLoop(meshes, 1, [vertexMap |-> <<>>, vertexList |-> <<>>, meshIdxList |-> <<>>,
                          meshList |-> <<>>])

IdxVertexes == { <<0, 0, 0>>, <<1, 0, 0>>, <<10, 0, 0>>, <<19, 0, 0>>, <<20, 0, 0>>,
                 <<0, 20, 0>>, <<20480, 0, 0>> }
IdxArrays == UNION {[1..n -> IdxVertexes] : n \in 0..MaxVerts}
IdxInputs ==
    {<<>>} \cup {<<a>> : a \in IdxArrays}
    \cup UNION {{<<SubSeq(a, 1, k), SubSeq(a, k + 1, Len(a))>> : k \in 0..Len(a)} : a \in IdxArrays}

Returned(r) ==
    /\ vertexList' = r.vertexList
    /\ meshList' = r.meshList
    /\ pc' = "done"
    /\ UNCHANGED <<inMeshes, objVars>>

GetVertexIndexList == pc = "call" /\ Returned(getVertexIndexList(inMeshes))

InitIdx ==
    /\ self = NewObject /\ ret = None /\ vboRef = <<>> /\ status = "ok"
    /\ inMeshes \in IdxInputs
    /\ vertexList = <<>>
    /\ meshList = <<>>
    /\ pc = "call"

NextIdx == GetVertexIndexList

SpecIdx == InitIdx /\ [][NextIdx]_vars

(***************************************************************************)
(* Properties                                                              *)
(***************************************************************************)
Computed == status = "ok" /\ self.transformedMin # None

\* C1: when a mutator has returned, every derived field is what a full recompute
\* from the transform, the meshes and the hull parameters gives.
C1_DerivedConsistent == Computed => processMatrix(self).o = self

TriIdentity ==
    /\ Computed
    /\ self.matrix = Identity
    /\ Len(self.meshList) = 1
    /\ self.meshList[1].vertexes = Tri

\* C3 as stated: for the triangle (0,0,0),(10,0,0),(0,10,0) under the identity the
\* accessors give boundsMin (0,0,0), boundsMax (10,10,0), size (10,10,0) and
\* centerOffset (5,5,0).
C3_ScenarioAbsolute ==
    TriIdentity =>
        /\ self.transformedMin = Some(<<0, 0, 0>>)
        /\ self.transformedMax = Some(<<Fx(10), Fx(10), 0>>)
        /\ self.transformedSize = Some(<<Fx(10), Fx(10), 0>>)
        /\ self.drawOffset = Some(<<Fx(5), Fx(5), 0>>)

\* C3 amended: for that triangle under the identity getMinimum() is (-5,-5,0) and
\* getMaximum() is (5,5,0), both relative to the draw offset; getSize() is
\* (10,10,0) and getDrawOffset() is (5,5,0).
C3_ScenarioRelative ==
    TriIdentity =>
        /\ self.transformedMin = Some(<<-Fx(5), -Fx(5), 0>>)
        /\ self.transformedMax = Some(<<Fx(5), Fx(5), 0>>)
        /\ self.transformedSize = Some(<<Fx(10), Fx(10), 0>>)
        /\ self.drawOffset = Some(<<Fx(5), Fx(5), 0>>)

C3_Witness == TriIdentity /\ self.transformedSize = Some(<<Fx(10), Fx(10), 0>>)

\* C4: copy() returns an object with the original's transform, derived fields and
\* four hulls, a mesh per original mesh sharing its vertex data, and counts one
\* more reference on each shared buffer.
C4_CopyComplete ==
    [][(ret' # None /\ ret'[1] = "copy" /\ status' = "ok") =>
        /\ ret'[2].matrix = self.matrix
        /\ ret'[2].transformedMin = self.transformedMin
        /\ ret'[2].transformedMax = self.transformedMax
        /\ ret'[2].transformedSize = self.transformedSize
        /\ ret'[2].drawOffset = self.drawOffset
        /\ ret'[2].boundaryCircleSize = self.boundaryCircleSize
        /\ ret'[2].boundaryHull = self.boundaryHull
        /\ ret'[2].printAreaHull = self.printAreaHull
        /\ ret'[2].headAreaHull = self.headAreaHull
        /\ ret'[2].headAreaMinHull = self.headAreaMinHull
        /\ ret'[2].meshList = self.meshList
        /\ vboRef' = [b \in DOMAIN vboRef |-> vboRef[b] + 1]]_vars

\* C5: setScale and setSize asked for the value zero leave the transform and the
\* derived fields as they were.
C5_ZeroIsNoOp ==
    [][(\E axis \in ScaleAxes, uniform \in BOOLEAN :
            SetScale(0, axis, uniform) \/ SetSize(0, axis, uniform)) => self' = self]_vars

\* C6: no operation ends in a fatal error, on a fresh object or an empty mesh set
\* either.
C6_NoFatalError == status # "raised"

Fits(o, size) ==
    /\ 2 * (o.position[1] + o.transformedMax[1][1]) <= size[1]
    /\ 2 * (o.position[1] + o.transformedMin[1][1]) >= -size[1]
    /\ 2 * (o.position[2] + o.transformedMax[1][2]) <= size[2]
    /\ 2 * (o.position[2] + o.transformedMin[1][2]) >= -size[2]
    /\ o.transformedSize[1][3] <= size[3]
Tight(o, size) ==
    \/ 2 * (o.position[1] + o.transformedMax[1][1]) = size[1]
    \/ 2 * (o.position[1] + o.transformedMin[1][1]) = -size[1]
    \/ 2 * (o.position[2] + o.transformedMax[1][2]) = size[2]
    \/ 2 * (o.position[2] + o.transformedMin[1][2]) = -size[2]
    \/ o.transformedSize[1][3] = size[3]

ScaledUpTo(o, o2, size, scale) ==
    IF RLess(RInt(0), scale)
    THEN /\ o2.matrix = MatMul(o.matrix, Diag(scale, scale, scale))
         /\ Fits(o2, size)
         /\ Tight(o2, size)
    ELSE o2 = o

\* C7: scaleUpTo takes the least of the five factors; when it is not positive
\* nothing changes, and when it is the transform is scaled by it and the object
\* then fits the target size at its position, touching it on one side at least.
C7_ScaleUpToFits ==
    [][\A size \in TargetSizes :
        (self.transformedMin # None /\ ScaleUpTo(size))
            => ScaledUpTo(self, self', size, scaleUpToFactor(self, size))]_vars

SubPoly(a, b) == \A i \in 1..Len(a) : InPoly(a[i], b)

Asked == ret # None /\ ret[1] = "canStoreAsSTL"

\* C10 as stated: canStoreAsSTL is true exactly when the object has one mesh.
C10_ExactlyOneMesh == Asked => (ret[2] <=> Len(self.meshList) = 1)

\* C10 amended: canStoreAsSTL is true exactly when the object has fewer than two
\* meshes, none included.
C10_FewerThanTwoMeshes == Asked => (ret[2] <=> Len(self.meshList) < 2)

C10_Witness == Asked /\ Len(self.meshList) = 0 /\ ret[2]

\* the places of the vertexes handed in, <<mesh, vertex>>, and what the call made of them
Places == {p \in (1..Len(inMeshes)) \X (1..MaxVerts) : p[2] <= Len(inMeshes[p[1]])}
VertexAt(p) == inMeshes[p[1]][p[2]]
IndexAt(p) == meshList[p[1]][p[2]]

\* C2: two vertexes of the same hash cell that lie within the tolerance of each
\* other get the same index, whatever was handled between them.
C2_SameCellMerged ==
    pc = "done" =>
        \A p, q \in Places :
            (HashNr(VertexAt(p)) = HashNr(VertexAt(q))
                /\ DistSq3(VertexAt(p), VertexAt(q)) < 2 * 2)
            => IndexAt(p) = IndexAt(q)

\* C9: the call returns one index list per mesh, in mesh order, with one index per
\* vertex; each index is a place of the merged list whose vertex is within 0.001 of
\* the vertex handed in; the merged list is no longer than the input, and vertexes
\* farther apart than 0.01 never share an index.
C9_IndexLists ==
    pc = "done" =>
        /\ Len(meshList) = Len(inMeshes)
        /\ \A k \in 1..Len(inMeshes) : Len(meshList[k]) = Len(inMeshes[k])
        /\ \A p \in Places :
              /\ IndexAt(p) \in 0..(Len(vertexList) - 1)
              /\ DistSq3(vertexList[IndexAt(p) + 1], VertexAt(p)) <= 2 * 2
        /\ Len(vertexList) <= Cardinality(Places)
        /\ \A p, q \in Places :
              DistSq3(VertexAt(p), VertexAt(q)) > 20 * 20 => IndexAt(p) # IndexAt(q)

C9_Witness ==
    /\ pc = "done"
    /\ Len(inMeshes) = 2
    /\ Len(vertexList) < Cardinality(Places)
    /\ \E p, q \in Places :
          /\ HashNr(VertexAt(p)) = HashNr(VertexAt(q))
          /\ DistSq3(VertexAt(p), VertexAt(q)) > 20 * 20
====
